---------------------------- MODULE Spec2Model ----------------------------
(***************************************************************************)
(* Installment scheduling and settlement engine of AG-CRM (src/app.py and  *)
(* the maintenance scripts), over a PostgreSQL store.                      *)
(*                                                                         *)
(* Dates are day numbers counted from 2024-01-01 (a Monday), so that       *)
(* date.weekday() is the day number modulo 7.  Money is counted in mills   *)
(* (tenths of a cent): Decimal.quantize(Decimal('0.01')) rounds a number   *)
(* of mills to a multiple of Cent, and a float division is rounded to the  *)
(* nearest mill.                                                           *)
(*                                                                         *)
(* Every request handler opens its own connection (get_db) and runs one    *)
(* transaction at PostgreSQL's default READ COMMITTED level: a statement   *)
(* sees the rows committed when it runs plus the transaction's own writes, *)
(* an UPDATE or DELETE locks its rows until commit or rollback.            *)
(***************************************************************************)
EXTENDS Integers, Sequences, FiniteSets, Bags, TLC

----------------------------------------------------------------------------
(* Calendar: datetime.date                                                 *)

EpochYear == 2024

IsLeap(y) == (y % 4 = 0 /\ y % 100 # 0) \/ y % 400 = 0

DaysInYear(y) == IF IsLeap(y) THEN 366 ELSE 365

DaysInMonth(y, m) ==
    IF m = 2 THEN (IF IsLeap(y) THEN 29 ELSE 28)
    ELSE IF m \in {4, 6, 9, 11} THEN 30 ELSE 31

RECURSIVE DaysBeforeYear(_)
DaysBeforeYear(y) ==
    IF y <= EpochYear THEN 0 ELSE DaysBeforeYear(y - 1) + DaysInYear(y - 1)

RECURSIVE DaysBeforeMonth(_, _)
DaysBeforeMonth(y, m) ==
    IF m <= 1 THEN 0 ELSE DaysBeforeMonth(y, m - 1) + DaysInMonth(y, m - 1)

\* date(y, m, d) as a day number
date(y, m, d) == DaysBeforeYear(y) + DaysBeforeMonth(y, m) + (d - 1)

RECURSIVE YearFrom(_, _)
YearFrom(y, n) == IF n < DaysInYear(y) THEN y ELSE YearFrom(y + 1, n - DaysInYear(y))

year(n) == YearFrom(EpochYear, n)

RECURSIVE MonthFrom(_, _, _)
MonthFrom(y, m, n) ==
    IF n < DaysInMonth(y, m) THEN m ELSE MonthFrom(y, m + 1, n - DaysInMonth(y, m))

month(n) == MonthFrom(year(n), 1, n - DaysBeforeYear(year(n)))

day(n) == n - date(year(n), month(n), 1) + 1

\* date.weekday(): 0 = Monday ... 6 = Sunday
weekday(n) == n % 7

\* datetime.strptime(text, '%Y-%m-%d'): a year-month-day triple that names a
\* real day parses, any other raises ValueError
ValidYmd(t) ==
    /\ t.y >= EpochYear
    /\ t.m \in 1..12
    /\ t.d \in 1..DaysInMonth(t.y, t.m)

strptime(t) == date(t.y, t.m, t.d)

\* fix_datas_natal.is_data_bloqueada
is_data_bloqueada(n) ==
    \/ weekday(n) = 6
    \/ (month(n) = 12 /\ day(n) \in {24, 25, 31})
    \/ (month(n) = 1 /\ day(n) = 1)

\* variant: one step forward from a blocked date, without checking again
get_proximo_dia_util_UmPasso(n) ==
    IF is_data_bloqueada(n) THEN n + 1 ELSE n

\* fix_datas_natal.get_proximo_dia_util
RECURSIVE get_proximo_dia_util(_)
get_proximo_dia_util(n) ==
    IF is_data_bloqueada(n) THEN get_proximo_dia_util(n + 1) ELSE n

----------------------------------------------------------------------------
(* Money                                                                   *)

Cent == 10
Real(units) == units * 100 * Cent           \* whole currency units in mills

\* a / b rounded to the nearest mill (a >= 0, b > 0)
RoundDiv(a, b) == (2 * a + b) \div (2 * b)

\* Decimal.quantize(Decimal('0.01')) under the default ROUND_HALF_EVEN (x >= 0)
quantize(x) ==
    LET q == x \div Cent
        r == x % Cent
    IN  IF 2 * r < Cent THEN q * Cent
        ELSE IF 2 * r > Cent THEN (q + 1) * Cent
        ELSE IF q % 2 = 0 THEN q * Cent ELSE (q + 1) * Cent

Max(a, b) == IF a >= b THEN a ELSE b

NULL == -1                                   \* SQL NULL / Python None in a money or date column

COALESCE(v, dflt) == IF v = NULL THEN dflt ELSE v

----------------------------------------------------------------------------
(* Store: the committed tables, the SERIAL sequences, and one connection   *)
(* per session with the uncommitted writes of its transaction              *)

Sessions == {"s1", "s2"}

VARIABLES
    cobrancas,            \* committed table cobrancas: id -> row
    parcelas,             \* committed table parcelas: id -> row
    historico_pagamentos, \* committed table historico_pagamentos: bag of rows
    pagamentos,           \* committed table pagamentos: bag of rows
    seq,                  \* SERIAL sequences: the last id of each table
    pc,                   \* statement each session is about to run
    loc,                  \* local variables of the handler each session runs
    tx,                   \* uncommitted writes of each session's transaction
    flash,                \* outcome reported by the last request that returned
    pedidos,              \* number of requests that have opened a transaction
    chamada               \* call of a function on its own: arguments and return value

vars == <<cobrancas, parcelas, historico_pagamentos, pagamentos, seq, pc, loc, tx, flash,
          pedidos, chamada>>
tables == <<cobrancas, parcelas, historico_pagamentos, pagamentos>>

EmptyRows == [i \in {} |-> 0]

\* a transaction that has written nothing
\* (cob, par: rows updated; delpar: rows deleted; novacob, novas: rows inserted,
\* which get their ids from the sequences when they become visible, a new
\* installment of a new charge naming it by cobranca_id 0 until then)
NoTx == [cob |-> EmptyRows, par |-> EmptyRows, delpar |-> {},
         novacob |-> <<>>, novas |-> <<>>,
         hist |-> EmptyBag, delhist |-> EmptyBag, pag |-> EmptyBag]

\* handler locals before a request is read
NoLoc == [id |-> 0, cobranca_id |-> 0, valor |-> 0, taxa_juros |-> 0, data |-> 0,
          numero_parcelas |-> 0, valor_total |-> 0, valor_parcela |-> 0,
          valor_recebido_agora |-> 0, total_pago |-> 0, status_novo |-> "",
          valor_input |-> [kind |-> "vazio", v |-> 0],
          data_pagamento_valor |-> NULL, snap |-> {}, msg |-> "", erro |-> ""]

\* rows of a table as a transaction sees them: committed rows, its own writes on top
Overlay(committed, written, deleted) ==
    [i \in (DOMAIN committed \cup DOMAIN written) \ deleted |->
        IF i \in DOMAIN written THEN written[i] ELSE committed[i]]

ViewCob(s) == Overlay(cobrancas, tx[s].cob, {})
ViewPar(s) == Overlay(parcelas, tx[s].par, tx[s].delpar)

\* row locks taken by UPDATE and DELETE, held until the transaction ends
LockedPar(s, i) == \E t \in Sessions \ {s} : i \in DOMAIN tx[t].par \cup tx[t].delpar
LockedCob(s, i) == \E t \in Sessions \ {s} : i \in DOMAIN tx[t].cob

Upsert(rows, i, row) == [j \in DOMAIN rows \cup {i} |-> IF j = i THEN row ELSE rows[j]]

\* UPDATE <table> SET ... WHERE id = i, row being the row after SET: no row,
\* no change
UpdateParTx(s, i, row) ==
    IF i \in DOMAIN ViewPar(s)
    THEN [tx EXCEPT ![s].par = Upsert(@, i, row)]
    ELSE tx

UpdateCobTx(s, i, row) ==
    IF i \in DOMAIN ViewCob(s)
    THEN [tx EXCEPT ![s].cob = Upsert(@, i, row)]
    ELSE tx

ParcelasDe(rows, c) == {i \in DOMAIN rows : rows[i].cobranca_id = c}

HistDe(bag, c) == [r \in {h \in DOMAIN bag : h.cobranca_id = c} |-> bag[r]]

\* SELECT COALESCE(SUM(valor_pago), 0) FROM historico_pagamentos
RECURSIVE SomaHistorico(_)
SomaHistorico(bag) ==
    IF DOMAIN bag = {} THEN 0
    ELSE LET r == CHOOSE x \in DOMAIN bag : TRUE
         IN  r.valor_pago * bag[r] + SomaHistorico([x \in DOMAIN bag \ {r} |-> bag[x]])

\* no function is being called on its own
NenhumaChamada == [fn |-> ""]

Finish(s, msg) ==
    /\ pc' = [pc EXCEPT ![s] = "idle"]
    /\ loc' = [loc EXCEPT ![s] = NoLoc]
    /\ tx' = [tx EXCEPT ![s] = NoTx]
    /\ flash' = msg

\* a request that returns before it writes: the connection is closed, nothing changes
Reject(s, msg) ==
    /\ Finish(s, msg)
    /\ UNCHANGED <<tables, seq>>

\* the transaction ends and the given writes become the committed rows
Termina(s, written, msg) ==
    LET c == seq.cobrancas + 1
        p == seq.parcelas
        inscob == [i \in {c + j - 1 : j \in 1..Len(written.novacob)} |->
                      written.novacob[i - c + 1]]
        inspar == [i \in (p + 1)..(p + Len(written.novas)) |->
                      [written.novas[i - p] EXCEPT
                          !.cobranca_id = IF @ = 0 THEN c ELSE @]]
    IN
    /\ cobrancas' = Overlay(Overlay(cobrancas, written.cob, {}), inscob, {})
    /\ parcelas' = Overlay(Overlay(parcelas, written.par, written.delpar), inspar, {})
    /\ seq' = [cobrancas |-> seq.cobrancas + Len(written.novacob),
               parcelas |-> p + Len(written.novas)]
    /\ historico_pagamentos' = (historico_pagamentos (-) written.delhist) (+) written.hist
    /\ pagamentos' = pagamentos (+) written.pag
    /\ Finish(s, msg)

\* conn.commit()
commit(s) ==
    /\ pc[s] = "commit"
    /\ Termina(s, tx[s], loc[s].msg)

\* variant: the writes made before the exception stay
AposExcecao_SemRollback(written) == written

\* what is left of a transaction's writes when it does not reach conn.commit():
\* conn.rollback() in the except branch, or the server's rollback when the
\* connection is closed or lost, discards them all
AposExcecao(written) == NoTx

\* an exception at the statement the session is about to run
rollback(s) ==
    /\ pc[s] # "idle"
    /\ Termina(s, AposExcecao(tx[s]), loc[s].erro)

----------------------------------------------------------------------------
(* Schedule generation: adicionar_cobranca and editar_cobranca             *)

\* variant: a rate without a plan gets the 10-installment plan
PlanoParcelas_QualquerTaxa(taxa_juros) ==
    IF taxa_juros = 60 THEN 15 ELSE 10

\* rate -> number of daily installments; 0 for a rate that has no plan
PlanoParcelas(taxa_juros) ==
    IF taxa_juros = 30 THEN 10
    ELSE IF taxa_juros = 60 THEN 15
    ELSE 0

\* valor_emprestimo * (1 + (taxa_juros / 100))
ValorComJuros(valor_emprestimo, taxa_juros) ==
    RoundDiv(valor_emprestimo * (100 + taxa_juros), 100)

\* variant: the loop over Sundays is left out
PularDomingos_Nunca(n) == n

\* while data.weekday() == 6: data += timedelta(days=1)
PularDomingos(n) == IF weekday(n) = 6 THEN n + 1 ELSE n

\* the check made on the first due date before a schedule is generated
DataRecusada(n) == weekday(n) = 6

\* variant: the face value is cut down to whole currency units
NovaParcela_ValorInteiro(c, numero, valor, data) ==
    [cobranca_id |-> c, numero_parcela |-> numero,
     valor |-> (valor \div Real(1)) * Real(1),
     data_vencimento |-> data, status |-> "Pendente", valor_pago |-> 0,
     data_pagamento |-> NULL, multa_manual |-> NULL]

\* INSERT INTO parcelas (cobranca_id, numero_parcela, valor, data_vencimento, status)
NovaParcela(c, numero, valor, data) ==
    [cobranca_id |-> c, numero_parcela |-> numero, valor |-> valor,
     data_vencimento |-> data, status |-> "Pendente", valor_pago |-> 0,
     data_pagamento |-> NULL, multa_manual |-> NULL]

\* due dates of installments i+1 .. n with the cursor at data_vencimento_atual:
\* each pass of "for i in range(numero_parcelas)" skips Sundays, takes the date,
\* and moves the cursor to the next day
RECURSIVE Agenda(_, _, _)
Agenda(data_vencimento_atual, i, n) ==
    IF i >= n THEN <<>>
    ELSE LET data == PularDomingos(data_vencimento_atual)
         IN  <<data>> \o Agenda(data + 1, i + 1, n)

\* the first k passes of the loop: k INSERTs INTO parcelas
ParcelasGeradas(l, k) ==
    LET datas == Agenda(l.data, 0, k)
    IN  [j \in 1..k |-> NovaParcela(l.cobranca_id, j, l.valor_parcela, datas[j])]

\* the loop over the installments: it runs to the end, or a statement raises
\* after k rows have been inserted
GerarParcelas(s, k, next) ==
    LET l == loc[s]
        written == [tx[s] EXCEPT !.novas = ParcelasGeradas(l, k)]
    IN  /\ IF k = l.numero_parcelas
           THEN /\ tx' = [tx EXCEPT ![s] = written]
                /\ pc' = [pc EXCEPT ![s] = next]
                /\ UNCHANGED <<tables, seq, loc, flash>>
           ELSE Termina(s, AposExcecao(written), l.erro)

\* POST /cobranca/adicionar: validation, up to the first statement
adicionar_cobranca(s, valor_emprestimo, taxa_juros, data_primeira_parcela) ==
    /\ pc[s] = "idle"
    /\ IF ~ValidYmd(data_primeira_parcela)
       THEN Reject(s, "erro_500")
       ELSE IF DataRecusada(strptime(data_primeira_parcela))
       THEN Reject(s, "data_bloqueada")
       ELSE IF PlanoParcelas(taxa_juros) = 0
       THEN Reject(s, "taxa_invalida")
       ELSE /\ pc' = [pc EXCEPT ![s] = "add_ins_cobranca"]
            /\ loc' = [loc EXCEPT ![s] =
                 [NoLoc EXCEPT !.valor = valor_emprestimo,
                               !.taxa_juros = taxa_juros,
                               !.data = strptime(data_primeira_parcela),
                               !.numero_parcelas = PlanoParcelas(taxa_juros),
                               !.valor_total = ValorComJuros(valor_emprestimo, taxa_juros),
                               !.valor_parcela =
                                   RoundDiv(ValorComJuros(valor_emprestimo, taxa_juros),
                                            PlanoParcelas(taxa_juros)),
                               !.msg = "cobranca_criada",
                               !.erro = "erro_criar"]]
            /\ UNCHANGED <<tables, seq, tx, flash>>

\* INSERT INTO cobrancas ... RETURNING id (nova_cobranca_id, 0 until visible)
add_ins_cobranca(s) ==
    /\ pc[s] = "add_ins_cobranca"
    /\ LET l == loc[s]
           row == [valor_original |-> l.valor, taxa_juros |-> l.taxa_juros,
                   valor_total |-> l.valor_total, valor_pago |-> 0,
                   data_vencimento |-> l.data, data_pagamento |-> NULL,
                   status |-> "Pendente", numero_parcelas |-> l.numero_parcelas]
       IN  tx' = [tx EXCEPT ![s].novacob = <<row>>]
    /\ pc' = [pc EXCEPT ![s] = "add_ins_parcelas"]
    /\ UNCHANGED <<tables, seq, loc, flash>>

add_ins_parcelas(s, k) ==
    /\ pc[s] = "add_ins_parcelas"
    /\ k \in 0..loc[s].numero_parcelas
    /\ GerarParcelas(s, k, "commit")

\* POST /cobrancas/editar/<id>: validation, up to the first write
\* (an empty form field is NULL)
editar_cobranca(s, id, valor_emprestimo, taxa_juros_form, data_vencimento) ==
    /\ pc[s] = "idle"
    /\ IF id \notin DOMAIN cobrancas
       THEN Reject(s, "nao_encontrada")
       ELSE LET taxa_juros == IF taxa_juros_form # NULL THEN taxa_juros_form
                              ELSE cobrancas[id].taxa_juros
            IN  IF valor_emprestimo = NULL
                THEN Reject(s, "valor_obrigatorio")
                ELSE IF valor_emprestimo <= 0
                THEN Reject(s, "valor_invalido")
                ELSE IF ~ValidYmd(data_vencimento)
                THEN Reject(s, "erro_dados")
                ELSE IF DataRecusada(strptime(data_vencimento))
                THEN Reject(s, "data_bloqueada")
                ELSE IF taxa_juros = 0
                THEN Reject(s, "taxa_obrigatoria")
                ELSE IF PlanoParcelas(taxa_juros) = 0
                THEN Reject(s, "taxa_invalida")
                ELSE /\ pc' = [pc EXCEPT ![s] = "edit_del_parcelas"]
                     /\ loc' = [loc EXCEPT ![s] =
                          [NoLoc EXCEPT !.id = id,
                                        !.cobranca_id = id,
                                        !.valor = valor_emprestimo,
                                        !.taxa_juros = taxa_juros,
                                        !.data = strptime(data_vencimento),
                                        !.numero_parcelas = PlanoParcelas(taxa_juros),
                                        !.valor_total = ValorComJuros(valor_emprestimo, taxa_juros),
                                        !.valor_parcela =
                                            RoundDiv(ValorComJuros(valor_emprestimo, taxa_juros),
                                                     PlanoParcelas(taxa_juros)),
                                        !.msg = "cobranca_atualizada",
                                        !.erro = "erro_atualizar"]]
                     /\ UNCHANGED <<tables, seq, tx, flash>>

\* DELETE FROM parcelas WHERE cobranca_id = id.  The rows are those the
\* statement sees when it starts; when one of them is locked the statement
\* waits, and then deletes those of them that still exist.
edit_del_parcelas(s) ==
    /\ pc[s] = "edit_del_parcelas"
    /\ LET rows == ParcelasDe(ViewPar(s), loc[s].id)
       IN  IF \E i \in rows : LockedPar(s, i)
           THEN /\ loc' = [loc EXCEPT ![s].snap = rows]
                /\ pc' = [pc EXCEPT ![s] = "edit_del_wait"]
                /\ UNCHANGED tx
           ELSE /\ tx' = [tx EXCEPT ![s].delpar = @ \cup rows]
                /\ pc' = [pc EXCEPT ![s] = "edit_del_hist"]
                /\ UNCHANGED loc
    /\ UNCHANGED <<tables, seq, flash>>

edit_del_wait(s) ==
    /\ pc[s] = "edit_del_wait"
    /\ \A i \in loc[s].snap : ~LockedPar(s, i)
    /\ tx' = [tx EXCEPT ![s].delpar = @ \cup (loc[s].snap \cap DOMAIN ViewPar(s))]
    /\ loc' = [loc EXCEPT ![s].snap = {}]
    /\ pc' = [pc EXCEPT ![s] = "edit_del_hist"]
    /\ UNCHANGED <<tables, seq, flash>>

\* DELETE FROM historico_pagamentos WHERE cobranca_id = id
edit_del_hist(s) ==
    /\ pc[s] = "edit_del_hist"
    /\ tx' = [tx EXCEPT ![s].delhist = HistDe(historico_pagamentos, loc[s].id)]
    /\ pc' = [pc EXCEPT ![s] = "edit_ins_parcelas"]
    /\ UNCHANGED <<tables, seq, loc, flash>>

edit_ins_parcelas(s, k) ==
    /\ pc[s] = "edit_ins_parcelas"
    /\ k \in 0..loc[s].numero_parcelas
    /\ GerarParcelas(s, k, "edit_upd_cobranca")

\* variant: the UPDATE leaves taxa_juros and numero_parcelas as they were
RecalcularCobranca_SemTaxa(l, row) ==
    [row EXCEPT !.valor_original = l.valor, !.valor_total = l.valor_total,
                !.data_vencimento = l.data, !.valor_pago = 0,
                !.status = "Pendente"]

\* UPDATE cobrancas SET valor_original, valor_total, taxa_juros, data_vencimento,
\* numero_parcelas, valor_pago=0, status='Pendente' WHERE id
RecalcularCobranca(l, row) ==
    [row EXCEPT !.valor_original = l.valor, !.valor_total = l.valor_total,
                !.taxa_juros = l.taxa_juros, !.data_vencimento = l.data,
                !.numero_parcelas = l.numero_parcelas, !.valor_pago = 0,
                !.status = "Pendente"]

edit_upd_cobranca(s) ==
    /\ pc[s] = "edit_upd_cobranca"
    /\ ~LockedCob(s, loc[s].id)
    /\ LET Set(row) == RecalcularCobranca(loc[s], row)
       IN  tx' = UpdateCobTx(s, loc[s].id, Set(ViewCob(s)[loc[s].id]))
    /\ pc' = [pc EXCEPT ![s] = "commit"]
    /\ UNCHANGED <<tables, seq, loc, flash>>

----------------------------------------------------------------------------
(* Settlement: marcar_parcela_paga, registrar_pagamento and the manual     *)
(* edits of an installment                                                 *)

\* a form field: empty, text that is not a number, or a number
Vazio == [kind |-> "vazio", v |-> 0]
Texto == [kind |-> "texto", v |-> 0]
Num(n) == [kind |-> "num", v |-> n]

\* date.today()
Hoje == date(2024, 12, 18)

\* tolerancia = Decimal('0.01')
tolerancia == Cent

\* valor_devido = valor + (multa_manual or 0)
ValorDevido(parcela) == parcela.valor + COALESCE(parcela.multa_manual, 0)

\* saldo_restante = max(valor_devido - valor_pago_existente, 0)
SaldoRestante(parcela) ==
    Max(ValorDevido(parcela) - COALESCE(parcela.valor_pago, 0), 0)

\* variant: only the outstanding balance decides, the status is not consulted
JaPaga_SoSaldo(parcela) == SaldoRestante(parcela) <= 0

\* the installment is taken as settled already and the request returns
JaPaga(parcela) == parcela.status = "Pago" \/ SaldoRestante(parcela) <= 0

\* valor_recebido_agora: the amount of the form when it is a number above
\* zero, else the whole outstanding balance; never more than the balance;
\* quantized to cents
ValorRecebidoAgora(parcela, valor_input) ==
    LET informado == IF valor_input.kind = "num" /\ valor_input.v > 0
                     THEN valor_input.v
                     ELSE SaldoRestante(parcela)
        limitado == IF SaldoRestante(parcela) > 0 /\ informado > SaldoRestante(parcela)
                    THEN SaldoRestante(parcela)
                    ELSE informado
    IN  quantize(limitado)

\* variant: the amount of this request alone, not added to what was paid
TotalPago_SoAgora(parcela, valor_recebido_agora) ==
    quantize(valor_recebido_agora)

\* total_pago = (valor_pago_existente + valor_recebido_agora).quantize(0.01)
TotalPago(parcela, valor_recebido_agora) ==
    quantize(COALESCE(parcela.valor_pago, 0) + valor_recebido_agora)

\* saldo_pos_pagamento = max((valor_devido - total_pago).quantize(0.01), 0)
saldo_pos_pagamento(valor_devido, total_pago) ==
    IF valor_devido > total_pago THEN quantize(valor_devido - total_pago) ELSE 0

\* variant: the comparison without the tolerance
StatusNovo_SemTolerancia(parcela, total_pago) ==
    IF total_pago >= ValorDevido(parcela) THEN "Pago" ELSE "Pendente"

\* status_novo: the comparison with the one-cent tolerance
StatusNovo(parcela, total_pago) ==
    IF total_pago >= ValorDevido(parcela) - tolerancia THEN "Pago" ELSE "Pendente"

\* variant: the date of payment is written whatever the new status
DataPagamentoValor_Sempre(parcela, status_novo) == Hoje

\* data_pagamento_valor = date.today() if status_novo == 'Pago'
\*                        else parcela.get('data_pagamento')
DataPagamentoValor(parcela, status_novo) ==
    IF status_novo = "Pago" THEN Hoje ELSE parcela.data_pagamento

\* POST /parcela/<id>/pagar: everything up to the first UPDATE
marcar_parcela_paga(s, id, valor_input) ==
    /\ pc[s] = "idle"
    /\ IF id \notin DOMAIN parcelas
       THEN Reject(s, "nao_encontrada")
       ELSE LET parcela == parcelas[id]
                valor_recebido_agora == ValorRecebidoAgora(parcela, valor_input)
                total_pago == TotalPago(parcela, valor_recebido_agora)
                status_novo == StatusNovo(parcela, total_pago)
            IN  IF JaPaga(parcela)
                THEN Reject(s, "ja_paga")
                ELSE IF valor_input.kind = "texto"
                THEN Reject(s, "valor_invalido")
                ELSE IF valor_recebido_agora <= 0
                THEN Reject(s, "sem_saldo")
                ELSE /\ pc' = [pc EXCEPT ![s] = "pagar_upd_parcela"]
                     /\ loc' = [loc EXCEPT ![s] =
                          [NoLoc EXCEPT !.id = id,
                                        !.cobranca_id = parcela.cobranca_id,
                                        !.valor_input = valor_input,
                                        !.valor_recebido_agora = valor_recebido_agora,
                                        !.total_pago = total_pago,
                                        !.status_novo = status_novo,
                                        !.data_pagamento_valor =
                                            DataPagamentoValor(parcela, status_novo),
                                        !.msg = IF status_novo = "Pago" THEN "parcela_quitada"
                                                ELSE "pagamento_parcial",
                                        !.erro = "erro_pagamento"]]
                     /\ UNCHANGED <<tables, seq, tx, flash>>

\* UPDATE parcelas SET status, valor_pago, data_pagamento WHERE id
pagar_upd_parcela(s) ==
    /\ pc[s] = "pagar_upd_parcela"
    /\ ~LockedPar(s, loc[s].id)
    /\ LET Set(row) == [row EXCEPT !.status = loc[s].status_novo,
                                   !.valor_pago = loc[s].total_pago,
                                   !.data_pagamento = loc[s].data_pagamento_valor]
       IN  tx' = UpdateParTx(s, loc[s].id, Set(ViewPar(s)[loc[s].id]))
    /\ pc' = [pc EXCEPT ![s] = "pagar_upd_cobranca"]
    /\ UNCHANGED <<tables, seq, loc, flash>>

\* UPDATE cobrancas SET valor_pago = COALESCE(valor_pago, 0) + valor_recebido_agora
pagar_upd_cobranca(s) ==
    /\ pc[s] = "pagar_upd_cobranca"
    /\ ~LockedCob(s, loc[s].cobranca_id)
    /\ LET Set(row) == [row EXCEPT !.valor_pago =
                           COALESCE(@, 0) + loc[s].valor_recebido_agora]
       IN  tx' = UpdateCobTx(s, loc[s].cobranca_id, Set(ViewCob(s)[loc[s].cobranca_id]))
    /\ pc' = [pc EXCEPT ![s] = "pagar_cascata"]
    /\ UNCHANGED <<tables, seq, loc, flash>>

\* variant: the siblings as they were committed, without the write of this
\* transaction
TodasPagas_SemReleitura(rows, c) ==
    /\ ParcelasDe(parcelas, c) # {}
    /\ \A i \in ParcelasDe(parcelas, c) : parcelas[i].status = "Pago"

\* SELECT COUNT(*) AS total, SUM(CASE WHEN status = 'Pago' ...) AS pagas
\* FROM parcelas WHERE cobranca_id; pagas is NULL when there is no row
TodasPagas(rows, c) ==
    /\ ParcelasDe(rows, c) # {}
    /\ \A i \in ParcelasDe(rows, c) : rows[i].status = "Pago"

\* variant: the row carries the cumulative amount of the installment
RegistoHistorico_Acumulado(c, valor_recebido_agora, total_pago) ==
    [cobranca_id |-> c, valor_pago |-> total_pago]

\* the row INSERTed INTO historico_pagamentos: valor_pago is the amount
\* received in this request, not the cumulative one
RegistoHistorico(c, valor_recebido_agora, total_pago) ==
    [cobranca_id |-> c, valor_pago |-> valor_recebido_agora]

\* INSERT INTO historico_pagamentos (the amount of this request), then the
\* check of the sibling installments and, when all are paid,
\* UPDATE cobrancas SET status='Pago', data_pagamento=CURRENT_DATE
pagar_cascata(s) ==
    /\ pc[s] = "pagar_cascata"
    /\ LET c == loc[s].cobranca_id
           registo == RegistoHistorico(c, loc[s].valor_recebido_agora, loc[s].total_pago)
           Set(row) == [row EXCEPT !.status = "Pago", !.data_pagamento = Hoje]
           comhist == [tx EXCEPT ![s].hist = @ (+) SetToBag({registo})]
       IN  IF TodasPagas(ViewPar(s), c)
           THEN /\ tx' = [comhist EXCEPT ![s].cob =
                            IF c \in DOMAIN ViewCob(s)
                            THEN Upsert(@, c, Set(ViewCob(s)[c])) ELSE @]
                /\ loc' = [loc EXCEPT ![s].msg = "cobranca_liquidada"]
           ELSE /\ tx' = comhist
                /\ UNCHANGED loc
    /\ pc' = [pc EXCEPT ![s] = "commit"]
    /\ UNCHANGED <<tables, seq, flash>>

\* POST /cobranca/<id>/registrar_pagamento: everything up to the first write
registrar_pagamento(s, id, valor_pago_form) ==
    /\ pc[s] = "idle"
    /\ IF id \notin DOMAIN cobrancas
       THEN Reject(s, "nao_encontrada")
       ELSE IF valor_pago_form.kind # "num"
       THEN Reject(s, "erro_500")
       ELSE IF valor_pago_form.v <= 0
       THEN Reject(s, "valor_nao_positivo")
       ELSE /\ pc' = [pc EXCEPT ![s] = "reg_upd_cobranca"]
            /\ loc' = [loc EXCEPT ![s] =
                 [NoLoc EXCEPT !.id = id,
                               !.cobranca_id = id,
                               !.valor_input = valor_pago_form,
                               !.valor_recebido_agora = valor_pago_form.v,
                               !.total_pago =
                                   COALESCE(cobrancas[id].valor_pago, 0) + valor_pago_form.v,
                               !.msg = "pagamento_registrado",
                               !.erro = "erro_500"]]
            /\ UNCHANGED <<tables, seq, tx, flash>>

\* INSERT INTO pagamentos; UPDATE cobrancas SET valor_pago = novo_valor_pago;
\* INSERT INTO historico_pagamentos
reg_upd_cobranca(s) ==
    /\ pc[s] = "reg_upd_cobranca"
    /\ ~LockedCob(s, loc[s].id)
    /\ LET registo == [cobranca_id |-> loc[s].id, valor_pago |-> loc[s].valor_recebido_agora]
           Set(row) == [row EXCEPT !.valor_pago = loc[s].total_pago]
       IN  tx' = [UpdateCobTx(s, loc[s].id, Set(ViewCob(s)[loc[s].id])) EXCEPT
                     ![s].pag = @ (+) SetToBag({registo}),
                     ![s].hist = @ (+) SetToBag({registo})]
    /\ pc' = [pc EXCEPT ![s] = "commit"]
    /\ UNCHANGED <<tables, seq, loc, flash>>

\* POST /parcela/<id>/editar_multa: everything up to the UPDATE
editar_multa_parcela(s, id, multa_input) ==
    /\ pc[s] = "idle"
    /\ IF id \notin DOMAIN parcelas
       THEN Reject(s, "nao_encontrada")
       ELSE IF multa_input.kind = "texto"
       THEN Reject(s, "multa_invalida")
       ELSE IF multa_input.kind = "num" /\ multa_input.v < 0
       THEN Reject(s, "multa_negativa")
       ELSE /\ pc' = [pc EXCEPT ![s] = "multa_upd"]
            /\ loc' = [loc EXCEPT ![s] =
                 [NoLoc EXCEPT !.id = id,
                               !.valor = IF multa_input.kind = "num" THEN multa_input.v
                                         ELSE NULL,
                               !.msg = IF multa_input.kind = "num" THEN "multa_definida"
                                       ELSE "multa_removida",
                               !.erro = "erro_multa"]]
            /\ UNCHANGED <<tables, seq, tx, flash>>

\* UPDATE parcelas SET multa_manual WHERE id
multa_upd(s) ==
    /\ pc[s] = "multa_upd"
    /\ ~LockedPar(s, loc[s].id)
    /\ LET Set(row) == [row EXCEPT !.multa_manual = loc[s].valor]
       IN  tx' = UpdateParTx(s, loc[s].id, Set(ViewPar(s)[loc[s].id]))
    /\ pc' = [pc EXCEPT ![s] = "commit"]
    /\ UNCHANGED <<tables, seq, loc, flash>>

\* an empty date field
SemData == [y |-> 0, m |-> 0, d |-> 0]

\* POST /parcela/<id>/editar_data: everything up to the UPDATE
editar_data_parcela(s, id, nova_data) ==
    /\ pc[s] = "idle"
    /\ IF id \notin DOMAIN parcelas
       THEN Reject(s, "nao_encontrada")
       ELSE IF nova_data = SemData
       THEN Reject(s, "data_invalida")
       ELSE IF ~ValidYmd(nova_data)
       THEN Reject(s, "formato_invalido")
       ELSE IF weekday(strptime(nova_data)) = 6
       THEN Reject(s, "data_bloqueada")
       ELSE /\ pc' = [pc EXCEPT ![s] = "data_upd"]
            /\ loc' = [loc EXCEPT ![s] =
                 [NoLoc EXCEPT !.id = id,
                               !.data = strptime(nova_data),
                               !.msg = "data_atualizada",
                               !.erro = "erro_data"]]
            /\ UNCHANGED <<tables, seq, tx, flash>>

\* UPDATE parcelas SET data_vencimento WHERE id
data_upd(s) ==
    /\ pc[s] = "data_upd"
    /\ ~LockedPar(s, loc[s].id)
    /\ LET Set(row) == [row EXCEPT !.data_vencimento = loc[s].data]
       IN  tx' = UpdateParTx(s, loc[s].id, Set(ViewPar(s)[loc[s].id]))
    /\ pc' = [pc EXCEPT ![s] = "commit"]
    /\ UNCHANGED <<tables, seq, loc, flash>>

----------------------------------------------------------------------------
(* Balance reports: index, api_relatorios_kpis and visualizar_cliente      *)

\* the sum of valores[i] over the rows in ids: "for parcela in ...: total += ..."
RECURSIVE SomaDe(_, _)
SomaDe(valores, ids) ==
    IF ids = {} THEN 0
    ELSE LET i == CHOOSE x \in ids : TRUE
         IN  valores[i] + SomaDe(valores, ids \ {i})

\* saldo_devedor_total of the dashboard and of the KPI report: over the
\* cobrancas WHERE status = 'Pendente', over their parcelas WHERE
\* status = 'Pendente', the sum of valor + (multa_manual or 0)
saldo_devedor_total ==
    SomaDe([i \in DOMAIN parcelas |->
                parcelas[i].valor + COALESCE(parcelas[i].multa_manual, 0)],
           {i \in DOMAIN parcelas :
                /\ parcelas[i].status = "Pendente"
                /\ parcelas[i].cobranca_id \in DOMAIN cobrancas
                /\ cobrancas[parcelas[i].cobranca_id].status = "Pendente"})

\* saldo_devedor_cobranca of the client page: over the parcelas of the charge
\* whose status is 'Pendente', the sum of
\* max(valor + multa_manual - valor_pago, 0)
saldo_devedor_cobranca(c) ==
    SomaDe([i \in DOMAIN parcelas |->
                Max(parcelas[i].valor + COALESCE(parcelas[i].multa_manual, 0)
                        - COALESCE(parcelas[i].valor_pago, 0), 0)],
           {i \in ParcelasDe(parcelas, c) : parcelas[i].status = "Pendente"})

----------------------------------------------------------------------------
(* Requests of the schedule-generation runs                                *)

Ymd(y, m, d) == [y |-> y, m |-> m, d |-> d]

\* requests that open a transaction, in a run that generates schedules
MaxGeracoes == 3
MaxPlano == 15

\* a request arrives on an idle connection: it counts when it gets past its
\* validation and opens a transaction
Pedido(s, max, A) ==
    /\ A
    /\ pedidos' = IF pc'[s] # "idle" THEN pedidos + 1 ELSE pedidos
    /\ pedidos' <= max
    /\ UNCHANGED chamada

\* the next statement of a request under way
Passo(A) == A /\ UNCHANGED <<pedidos, chamada>>

\* the forms posted to /cobranca/adicionar: two that are accepted, and one
\* for each way of being turned down
FormulariosAdicionar ==
    {[valor_emprestimo |-> Real(1000), taxa_juros |-> 30, data_vencimento |-> Ymd(2024, 12, 20)],
     [valor_emprestimo |-> Real(1000), taxa_juros |-> 60, data_vencimento |-> Ymd(2024, 12, 25)],
     [valor_emprestimo |-> Real(1000), taxa_juros |-> 45, data_vencimento |-> Ymd(2024, 12, 20)],
     [valor_emprestimo |-> Real(1000), taxa_juros |-> 30, data_vencimento |-> Ymd(2024, 12, 22)],
     [valor_emprestimo |-> Real(1000), taxa_juros |-> 30, data_vencimento |-> Ymd(2025, 2, 30)]}

\* the forms posted to /cobrancas/editar/<id>, NULL for a field left empty
FormulariosEditar ==
    {[valor_emprestimo |-> Real(2000), taxa_juros |-> 60, data_vencimento |-> Ymd(2024, 12, 23)],
     [valor_emprestimo |-> Real(2000), taxa_juros |-> NULL, data_vencimento |-> Ymd(2024, 12, 23)],
     [valor_emprestimo |-> NULL, taxa_juros |-> 60, data_vencimento |-> Ymd(2024, 12, 23)],
     [valor_emprestimo |-> 0, taxa_juros |-> 60, data_vencimento |-> Ymd(2024, 12, 23)],
     [valor_emprestimo |-> Real(2000), taxa_juros |-> 45, data_vencimento |-> Ymd(2024, 12, 23)],
     [valor_emprestimo |-> Real(2000), taxa_juros |-> 0, data_vencimento |-> Ymd(2024, 12, 23)],
     [valor_emprestimo |-> Real(2000), taxa_juros |-> 60, data_vencimento |-> Ymd(2024, 12, 29)],
     [valor_emprestimo |-> Real(2000), taxa_juros |-> 60, data_vencimento |-> Ymd(2024, 13, 1)]}

InitEmpty ==
    /\ cobrancas = EmptyRows
    /\ parcelas = EmptyRows
    /\ historico_pagamentos = EmptyBag
    /\ pagamentos = EmptyBag
    /\ seq = [cobrancas |-> 0, parcelas |-> 0]
    /\ pc = [s \in Sessions |-> "idle"]
    /\ loc = [s \in Sessions |-> NoLoc]
    /\ tx = [s \in Sessions |-> NoTx]
    /\ flash = ""
    /\ pedidos = 0
    /\ chamada = NenhumaChamada

NextSched ==
    \E s \in Sessions :
        \/ \E f \in FormulariosAdicionar :
               Pedido(s, MaxGeracoes,
                      adicionar_cobranca(s, f.valor_emprestimo, f.taxa_juros,
                                         f.data_vencimento))
        \/ Passo(add_ins_cobranca(s))
        \/ \E k \in 0..MaxPlano : Passo(add_ins_parcelas(s, k))
        \/ \E c \in 1..(seq.cobrancas + 1), f \in FormulariosEditar :
               Pedido(s, MaxGeracoes,
                      editar_cobranca(s, c, f.valor_emprestimo, f.taxa_juros,
                                      f.data_vencimento))
        \/ Passo(edit_del_parcelas(s))
        \/ Passo(edit_del_wait(s))
        \/ Passo(edit_del_hist(s))
        \/ \E k \in 0..MaxPlano : Passo(edit_ins_parcelas(s, k))
        \/ Passo(edit_upd_cobranca(s))
        \/ Passo(commit(s))
        \/ Passo(rollback(s))

SpecSched == InitEmpty /\ [][NextSched]_vars

\* the form of a loan of 1000.00 at 30% whose first installment is due on
\* Monday 2024-03-04
FormularioExemplo ==
    [valor_emprestimo |-> Real(1000), taxa_juros |-> 30,
     data_vencimento |-> Ymd(2024, 3, 4)]

\* requests that open a transaction, in a run of that form
MaxExemplos == 4

\* runs in which /cobranca/adicionar is posted that form only
NextExemplo ==
    \E s \in Sessions :
        \/ Pedido(s, MaxExemplos,
                  adicionar_cobranca(s, FormularioExemplo.valor_emprestimo,
                                     FormularioExemplo.taxa_juros,
                                     FormularioExemplo.data_vencimento))
        \/ Passo(add_ins_cobranca(s))
        \/ \E k \in 0..MaxPlano : Passo(add_ins_parcelas(s, k))
        \/ Passo(commit(s))
        \/ Passo(rollback(s))

SpecExemplo == InitEmpty /\ [][NextExemplo]_vars

----------------------------------------------------------------------------
(* Requests of the settlement runs.  They start from a 15-installment      *)
(* schedule of which all but the last one to Abertas installments have     *)
(* been settled in full, one request after the other.                      *)

\* installments of the schedule still open at the start: 1..Abertas of them
Abertas == 2

\* requests that open a transaction, in a run of concurrent settlements
MaxConcorrentes == 2

\* requests that open a transaction, in a run of settlements one at a time
MaxPedidos == 3

PrincipaisIniciais == {937500}
DataInicial == date(2024, 12, 2)

ValoresConcorrentes == {Vazio, Num(33340)}
MultasConcorrentes == {Vazio, Num(5000)}
DatasConcorrentes == {Ymd(2024, 12, 25)}
DatasRecalculo == {Ymd(2024, 12, 23)}

\* the installment row after one request that settles it in full
Quitada(row) ==
    LET total_pago == TotalPago(row, ValorRecebidoAgora(row, Vazio))
    IN  [row EXCEPT !.status = StatusNovo(row, total_pago),
                    !.valor_pago = total_pago,
                    !.data_pagamento = Hoje]

\* a 15-installment schedule of the given principal whose last abertas
\* installments are open and whose other installments have been settled in full
EstadoInicial(principal, abertas) ==
        LET n == PlanoParcelas(60)
            total == ValorComJuros(principal, 60)
            l == [NoLoc EXCEPT !.cobranca_id = 1, !.data = DataInicial,
                               !.valor_parcela = RoundDiv(total, n)]
            geradas == ParcelasGeradas(l, n)
            recebido == ValorRecebidoAgora(geradas[1], Vazio)
        IN  /\ cobrancas = [c \in {1} |->
                   [valor_original |-> principal, taxa_juros |-> 60,
                    valor_total |-> total, valor_pago |-> (n - abertas) * recebido,
                    data_vencimento |-> DataInicial, data_pagamento |-> NULL,
                    status |-> "Pendente", numero_parcelas |-> n]]
            /\ parcelas = [i \in 1..n |->
                   IF i <= n - abertas THEN Quitada(geradas[i]) ELSE geradas[i]]
            /\ historico_pagamentos =
                   [r \in {[cobranca_id |-> 1, valor_pago |-> recebido]} |-> n - abertas]
            /\ pagamentos = EmptyBag
            /\ seq = [cobrancas |-> 1, parcelas |-> n]
            /\ pc = [s \in Sessions |-> "idle"]
            /\ loc = [s \in Sessions |-> NoLoc]
            /\ tx = [s \in Sessions |-> NoTx]
            /\ flash = ""
            /\ pedidos = 0
            /\ chamada = NenhumaChamada

InitPay ==
    \E principal \in PrincipaisIniciais, abertas \in 1..Abertas :
        EstadoInicial(principal, abertas)

\* the installments the requests of these runs name: the last Abertas of a schedule
Alvos ==
    {i \in DOMAIN parcelas :
        parcelas[i].numero_parcela >
            cobrancas[parcelas[i].cobranca_id].numero_parcelas - Abertas}

NextPay ==
    \E s \in Sessions :
        \/ \E i \in Alvos, v \in ValoresConcorrentes :
               Pedido(s, MaxConcorrentes, marcar_parcela_paga(s, i, v))
        \/ Passo(pagar_upd_parcela(s))
        \/ Passo(pagar_upd_cobranca(s))
        \/ Passo(pagar_cascata(s))
        \/ \E i \in Alvos, m \in MultasConcorrentes :
               Pedido(s, MaxConcorrentes, editar_multa_parcela(s, i, m))
        \/ Passo(multa_upd(s))
        \/ \E i \in Alvos, d \in DatasConcorrentes :
               Pedido(s, MaxConcorrentes, editar_data_parcela(s, i, d))
        \/ Passo(data_upd(s))
        \/ \E c \in DOMAIN cobrancas, v \in PrincipaisIniciais, d \in DatasRecalculo :
               Pedido(s, MaxConcorrentes, editar_cobranca(s, c, v, NULL, d))
        \/ Passo(edit_del_parcelas(s))
        \/ Passo(edit_del_wait(s))
        \/ Passo(edit_del_hist(s))
        \/ \E k \in 0..MaxPlano : Passo(edit_ins_parcelas(s, k))
        \/ Passo(edit_upd_cobranca(s))
        \/ Passo(commit(s))
        \/ Passo(rollback(s))

SpecPay == InitPay /\ [][NextPay]_vars

\* requests that open a transaction, in a run of part payments
MaxParciais == 3

\* a schedule of 15 installments of 50.00: 468.75 at 60%
PrincipalDeCinquenta == {468750}
ValoresParciais == {Num(30000), Num(20000)}

InitParcial ==
    \E principal \in PrincipalDeCinquenta, abertas \in 1..Abertas :
        EstadoInicial(principal, abertas)

\* part payments of 30.00 and 20.00 on installments of 50.00, one at a time
NextParcial ==
    \E s \in {"s1"} :
        \/ \E i \in Alvos, v \in ValoresParciais :
               Pedido(s, MaxParciais, marcar_parcela_paga(s, i, v))
        \/ Passo(pagar_upd_parcela(s))
        \/ Passo(pagar_upd_cobranca(s))
        \/ Passo(pagar_cascata(s))
        \/ Passo(commit(s))
        \/ Passo(rollback(s))

SpecParcial == InitParcial /\ [][NextParcial]_vars

----------------------------------------------------------------------------
(* The status-correction script: fix_status.corrigir_parcelas              *)

\* SELECT * FROM parcelas WHERE status != 'Pago' AND valor_pago > 0
ParcelasACorrigir ==
    {i \in DOMAIN parcelas :
        /\ parcelas[i].status # "Pago"
        /\ parcelas[i].valor_pago # NULL
        /\ parcelas[i].valor_pago > 0}

\* the script connects and fetches the installments it will look at
corrigir_parcelas(s) ==
    /\ pc[s] = "idle"
    /\ pc' = [pc EXCEPT ![s] = "fix_loop"]
    /\ loc' = [loc EXCEPT ![s] = [NoLoc EXCEPT !.snap = ParcelasACorrigir,
                                               !.msg = "corrigidas",
                                               !.erro = "erro_script"]]
    /\ UNCHANGED <<tables, seq, tx, flash>>

\* if status_geral['total'] == (status_geral['pagas'] + 1)
DeveQuitarCobranca(total, pagas) == total = pagas + 1

\* one pass of "for p in parcelas" (fetchall() without ORDER BY: any order):
\* within 0.05 of the amount due the installment is set to Pago, the
\* installments of its charge are counted as this transaction sees them, and
\* the charge is set to Pago when DeveQuitarCobranca
fix_passo(s, i) ==
    /\ pc[s] = "fix_loop"
    /\ i \in loc[s].snap
    /\ LET p == parcelas[i]
           valor_devido == p.valor + COALESCE(p.multa_manual, 0)
           valor_pago == COALESCE(p.valor_pago, 0)
           SetPar(row) == [row EXCEPT !.status = "Pago"]
           SetCob(row) == [row EXCEPT !.status = "Pago", !.data_pagamento = Hoje]
           com_parcela == UpdateParTx(s, i, SetPar(ViewPar(s)[i]))
           rows == Overlay(parcelas, com_parcela[s].par, com_parcela[s].delpar)
           total == Cardinality(ParcelasDe(rows, p.cobranca_id))
           pagas == Cardinality({j \in ParcelasDe(rows, p.cobranca_id) :
                                    rows[j].status = "Pago"})
       IN  IF valor_pago >= valor_devido - 5 * Cent
           THEN IF DeveQuitarCobranca(total, pagas) /\ p.cobranca_id \in DOMAIN ViewCob(s)
                THEN tx' = [com_parcela EXCEPT ![s].cob =
                               Upsert(@, p.cobranca_id, SetCob(ViewCob(s)[p.cobranca_id]))]
                ELSE tx' = com_parcela
           ELSE UNCHANGED tx
    /\ loc' = [loc EXCEPT ![s].snap = @ \ {i}]
    /\ UNCHANGED <<tables, seq, pc, flash>>

\* the loop is over: conn.commit() is next
fix_fim(s) ==
    /\ pc[s] = "fix_loop"
    /\ loc[s].snap = {}
    /\ pc' = [pc EXCEPT ![s] = "commit"]
    /\ UNCHANGED <<tables, seq, loc, tx, flash>>

\* runs of the script
MaxCorrecoes == 2

\* what has been paid of an installment that is still Pendente
PagosPendentes == {0, 33340, 99960, 100000}

\* a 15-installment schedule of 100.00 each whose last 1..Abertas installments
\* are Pendente, with any of those amounts paid
InitFix ==
    \E abertas \in 1..Abertas :
        \E pago \in [(PlanoParcelas(60) - abertas + 1)..PlanoParcelas(60) -> PagosPendentes] :
            LET n == PlanoParcelas(60)
                l == [NoLoc EXCEPT !.cobranca_id = 1, !.data = DataInicial,
                                   !.valor_parcela = Real(100)]
                geradas == ParcelasGeradas(l, n)
            IN  /\ cobrancas = [c \in {1} |->
                       [valor_original |-> 937500, taxa_juros |-> 60,
                        valor_total |-> n * Real(100),
                        valor_pago |-> (n - abertas) * Real(100)
                                           + SomaDe(pago, DOMAIN pago),
                        data_vencimento |-> DataInicial, data_pagamento |-> NULL,
                        status |-> "Pendente", numero_parcelas |-> n]]
                /\ parcelas = [i \in 1..n |->
                       IF i \in DOMAIN pago
                       THEN [geradas[i] EXCEPT !.valor_pago = pago[i]]
                       ELSE Quitada(geradas[i])]
                /\ historico_pagamentos = EmptyBag
                /\ pagamentos = EmptyBag
                /\ seq = [cobrancas |-> 1, parcelas |-> n]
                /\ pc = [s \in Sessions |-> "idle"]
                /\ loc = [s \in Sessions |-> NoLoc]
                /\ tx = [s \in Sessions |-> NoTx]
                /\ flash = ""
                /\ pedidos = 0
                /\ chamada = NenhumaChamada

NextFix ==
    \E s \in {"s1"} :
        \/ Pedido(s, MaxCorrecoes, corrigir_parcelas(s))
        \/ \E i \in DOMAIN parcelas : Passo(fix_passo(s, i))
        \/ Passo(fix_fim(s))
        \/ Passo(commit(s))
        \/ Passo(rollback(s))

SpecFix == InitFix /\ [][NextFix]_vars

----------------------------------------------------------------------------
(* The date-correction script: corrigir.corrigir_datas_festivas            *)

\* nova_data for an installment due on data_orig; NULL when no rule applies
NovaDataFestiva(data_orig) ==
    IF month(data_orig) = 12 /\ day(data_orig) \in {24, 25}
    THEN date(year(data_orig), 12, 26)
    ELSE IF month(data_orig) = 12 /\ day(data_orig) = 31
    THEN date(year(data_orig) + 1, 1, 2)
    ELSE IF month(data_orig) = 1 /\ day(data_orig) = 1
    THEN date(year(data_orig), 1, 2)
    ELSE NULL

\* the script connects and runs
\* SELECT id, data_vencimento FROM parcelas WHERE status = 'Pendente'
corrigir_datas_festivas(s) ==
    /\ pc[s] = "idle"
    /\ pc' = [pc EXCEPT ![s] = "datas_loop"]
    /\ loc' = [loc EXCEPT ![s] =
           [NoLoc EXCEPT !.snap = {i \in DOMAIN parcelas : parcelas[i].status = "Pendente"},
                         !.msg = "datas_corrigidas",
                         !.erro = "erro_script"]]
    /\ UNCHANGED <<tables, seq, tx, flash>>

\* one pass of "for p in parcelas" (fetchall() without ORDER BY: any order):
\* UPDATE parcelas SET data_vencimento = nova_data WHERE id, then
\* UPDATE cobrancas SET data_vencimento = nova_data
\* WHERE id = (the installment's charge) AND data_vencimento = data_orig
datas_passo(s, i) ==
    /\ pc[s] = "datas_loop"
    /\ i \in loc[s].snap
    /\ LET data_orig == parcelas[i].data_vencimento
           nova_data == NovaDataFestiva(data_orig)
           c == parcelas[i].cobranca_id
           SetPar(row) == [row EXCEPT !.data_vencimento = nova_data]
           SetCob(row) == [row EXCEPT !.data_vencimento = nova_data]
           com_parcela == UpdateParTx(s, i, SetPar(ViewPar(s)[i]))
       IN  IF nova_data # NULL
           THEN IF c \in DOMAIN ViewCob(s) /\ ViewCob(s)[c].data_vencimento = data_orig
                THEN tx' = [com_parcela EXCEPT ![s].cob =
                               Upsert(@, c, SetCob(ViewCob(s)[c]))]
                ELSE tx' = com_parcela
           ELSE UNCHANGED tx
    /\ loc' = [loc EXCEPT ![s].snap = @ \ {i}]
    /\ UNCHANGED <<tables, seq, pc, flash>>

\* the loop is over: conn.commit() is next
datas_fim(s) ==
    /\ pc[s] = "datas_loop"
    /\ loc[s].snap = {}
    /\ pc' = [pc EXCEPT ![s] = "commit"]
    /\ UNCHANGED <<tables, seq, loc, tx, flash>>

\* runs of the script
MaxCorrecoesDeDatas == 1

\* first due dates of the schedules the script finds
PrimeirasDatasFestivas == {date(2024, 12, 23), date(2027, 12, 23)}

\* a 10-installment schedule of 1000.00 at 30% as adicionar_cobranca generates
\* it from one of those dates, nothing paid
InitFestas ==
    \E primeira \in PrimeirasDatasFestivas :
        LET n == PlanoParcelas(30)
            total == ValorComJuros(Real(1000), 30)
            l == [NoLoc EXCEPT !.cobranca_id = 1, !.data = primeira,
                               !.valor_parcela = RoundDiv(total, n)]
            geradas == ParcelasGeradas(l, n)
        IN  /\ cobrancas = [c \in {1} |->
                   [valor_original |-> Real(1000), taxa_juros |-> 30,
                    valor_total |-> total, valor_pago |-> 0,
                    data_vencimento |-> primeira, data_pagamento |-> NULL,
                    status |-> "Pendente", numero_parcelas |-> n]]
            /\ parcelas = [i \in 1..n |-> geradas[i]]
            /\ historico_pagamentos = EmptyBag
            /\ pagamentos = EmptyBag
            /\ seq = [cobrancas |-> 1, parcelas |-> n]
            /\ pc = [s \in Sessions |-> "idle"]
            /\ loc = [s \in Sessions |-> NoLoc]
            /\ tx = [s \in Sessions |-> NoTx]
            /\ flash = ""
            /\ pedidos = 0
            /\ chamada = NenhumaChamada

NextFestas ==
    \E s \in {"s1"} :
        \/ Pedido(s, MaxCorrecoesDeDatas, corrigir_datas_festivas(s))
        \/ \E i \in DOMAIN parcelas : Passo(datas_passo(s, i))
        \/ Passo(datas_fim(s))
        \/ Passo(commit(s))
        \/ Passo(rollback(s))

SpecFestas == InitFestas /\ [][NextFestas]_vars

----------------------------------------------------------------------------
(* Calls of fix_datas_natal.get_proximo_dia_util on its own                 *)

\* years of dates the function is called with, from EpochYear on
AnosDeCalendario == 12

DatasDeCalendario == 0..(date(EpochYear + AnosDeCalendario, 1, 1) - 1)

\* the tables are empty and no request is under way
SemPedidos ==
    /\ cobrancas = EmptyRows
    /\ parcelas = EmptyRows
    /\ historico_pagamentos = EmptyBag
    /\ pagamentos = EmptyBag
    /\ seq = [cobrancas |-> 0, parcelas |-> 0]
    /\ pc = [s \in Sessions |-> "idle"]
    /\ loc = [s \in Sessions |-> NoLoc]
    /\ tx = [s \in Sessions |-> NoTx]
    /\ flash = ""
    /\ pedidos = 0

InitCalendario ==
    /\ SemPedidos
    /\ \E d \in DatasDeCalendario :
           chamada = [fn |-> "get_proximo_dia_util", data_obj |-> d, retorno |-> NULL]

\* d = get_proximo_dia_util(data_obj)
chamar_get_proximo_dia_util ==
    /\ chamada.fn = "get_proximo_dia_util"
    /\ chamada.retorno = NULL
    /\ chamada' = [chamada EXCEPT !.retorno = get_proximo_dia_util(chamada.data_obj)]
    /\ UNCHANGED <<tables, seq, pc, loc, tx, flash, pedidos>>

NextCalendario == chamar_get_proximo_dia_util

SpecCalendario == InitCalendario /\ [][NextCalendario]_vars

----------------------------------------------------------------------------
(* The automatic penalty and interest: calcular_valor_atualizado           *)

\* variant: a key that is missing reads as zero
dict_get_SemPadrao(d, chave, padrao) ==
    IF chave \in DOMAIN d THEN d[chave] ELSE 0

\* dict.get(chave, padrao)
dict_get(d, chave, padrao) ==
    IF chave \in DOMAIN d THEN d[chave] ELSE padrao

\* round(num / den, 2) of an amount in mills (num >= 0, den > 0)
round2(num, den) == RoundDiv(num, den * Cent) * Cent

\* calcular_valor_atualizado(cobranca) on day hoje, after midnight, with the
\* rows of configuracoes as config: rates in percent, amounts in mills
calcular_valor_atualizado(cobranca, hoje, config) ==
    LET sem_acrescimo ==
            [multa |-> 0, juros |-> 0,
             valor_total |-> cobranca.valor_original - dict_get(cobranca, "desconto", 0),
             dias_atraso |-> 0]
        dias_atraso == hoje - cobranca.data_vencimento
        dias_tolerancia == dict_get(config, "dias_tolerancia", 3)
        taxa_multa == dict_get(config, "taxa_multa", 10)
        taxa_juros == dict_get(config, "taxa_juros_mensal", 2)
    IN  IF cobranca.status # "Pago" /\ cobranca.data_vencimento # NULL
        THEN IF hoje >= cobranca.data_vencimento
             THEN IF dias_atraso > dias_tolerancia
                  THEN [multa |-> round2(cobranca.valor_original * taxa_multa, 100),
                        juros |-> round2(cobranca.valor_original * taxa_juros * dias_atraso,
                                         100 * 30),
                        valor_total |->
                            round2(cobranca.valor_original * 3000
                                       + cobranca.valor_original * taxa_multa * 30
                                       + cobranca.valor_original * taxa_juros * dias_atraso
                                       - dict_get(cobranca, "desconto", 0) * 3000,
                                   3000),
                        dias_atraso |-> dias_atraso]
                  ELSE sem_acrescimo
             ELSE sem_acrescimo
        ELSE sem_acrescimo

\* days before and after the due date on which the function is called
MaxAtraso == 8

VencimentoLegado == date(2024, 12, 2)

\* the charge rows the function is given: with and without a desconto key
CobrancasLegado ==
    {[valor_original |-> Real(100), status |-> st, data_vencimento |-> dv] :
         st \in {"Pendente", "Pago"}, dv \in {NULL, VencimentoLegado}}
    \cup
    {[valor_original |-> Real(100), status |-> st, data_vencimento |-> dv,
      desconto |-> Real(10)] :
         st \in {"Pendente", "Pago"}, dv \in {NULL, VencimentoLegado}}

\* the rows of configuracoes: any of the three keys may be missing
ConfiguracoesLegado ==
    UNION {[chaves -> {5}] :
               chaves \in SUBSET {"dias_tolerancia", "taxa_multa", "taxa_juros_mensal"}}

InitLegado ==
    /\ SemPedidos
    /\ \E c \in CobrancasLegado, cfg \in ConfiguracoesLegado,
          h \in (VencimentoLegado - 1)..(VencimentoLegado + MaxAtraso) :
           chamada = [fn |-> "calcular_valor_atualizado", cobranca |-> c, hoje |-> h,
                      config |-> cfg]

\* valores = calcular_valor_atualizado(cobranca)
chamar_calcular_valor_atualizado ==
    /\ chamada.fn = "calcular_valor_atualizado"
    /\ "retorno" \notin DOMAIN chamada
    /\ chamada' = [fn |-> chamada.fn, cobranca |-> chamada.cobranca,
                   hoje |-> chamada.hoje, config |-> chamada.config,
                   retorno |-> calcular_valor_atualizado(chamada.cobranca, chamada.hoje,
                                                         chamada.config)]
    /\ UNCHANGED <<tables, seq, pc, loc, tx, flash, pedidos>>

NextLegado == chamar_calcular_valor_atualizado

SpecLegado == InitLegado /\ [][NextLegado]_vars

----------------------------------------------------------------------------
(* Requests of the one-at-a-time runs: a single connection, from the same  *)
(* start, with the amounts and penalties a form can carry                  *)

ValoresPagos == {Vazio, Texto, Num(0), Num(-5000), Num(33340), Num(66660), Num(99990),
                 Num(200000)}
ValoresAvulsos == {Texto, Num(0), Num(-5000), Num(50000)}
MultasForm == {Vazio, Texto, Num(-1000), Num(5000)}

NextSeq ==
    \E s \in {"s1"} :
        \/ \E i \in Alvos, v \in ValoresPagos :
               Pedido(s, MaxPedidos, marcar_parcela_paga(s, i, v))
        \/ Passo(pagar_upd_parcela(s))
        \/ Passo(pagar_upd_cobranca(s))
        \/ Passo(pagar_cascata(s))
        \/ \E c \in DOMAIN cobrancas, v \in ValoresAvulsos :
               Pedido(s, MaxPedidos, registrar_pagamento(s, c, v))
        \/ Passo(reg_upd_cobranca(s))
        \/ \E i \in Alvos, m \in MultasForm :
               Pedido(s, MaxPedidos, editar_multa_parcela(s, i, m))
        \/ Passo(multa_upd(s))
        \/ Passo(commit(s))
        \/ Passo(rollback(s))

SpecSeq == InitPay /\ [][NextSeq]_vars

----------------------------------------------------------------------------
(* Properties of schedule generation                                       *)

\* C1: no installment of a generated or regenerated schedule is due on a
\* Sunday or on Dec 24, Dec 25, Dec 31 or Jan 1.
C1_SemDataBloqueada ==
    \A i \in DOMAIN parcelas :
        LET n == parcelas[i].data_vencimento
        IN  /\ n % 7 # 6
            /\ ~(month(n) = 12 /\ day(n) \in {24, 25, 31})
            /\ ~(month(n) = 1 /\ day(n) = 1)

\* C8: a request to generate or regenerate a schedule with a rate other than
\* 30 and 60 is rejected as an invalid rate and changes no table, so no
\* charge carries another rate; the schedule a request commits has exactly
\* 10 installments at rate 30 and exactly 15 at rate 60.
C8_TaxaForaDoPlano ==
    [][ /\ flash' = "taxa_invalida" => UNCHANGED tables
        /\ \A s \in Sessions :
               pc[s] = "idle" /\ pc'[s] # "idle" => loc'[s].taxa_juros \in {30, 60}
        /\ \A c \in DOMAIN cobrancas' : cobrancas'[c].taxa_juros \in {30, 60}
        /\ LET novas == DOMAIN parcelas' \ DOMAIN parcelas
           IN  novas # {} =>
                   \E c \in DOMAIN cobrancas' :
                       /\ \A i \in novas : parcelas'[i].cobranca_id = c
                       /\ cobrancas'[c].taxa_juros = 30 => Cardinality(novas) = 10
                       /\ cobrancas'[c].taxa_juros = 60 => Cardinality(novas) = 15
      ]_vars

C8_Witness ==
    /\ flash = "taxa_invalida"
    /\ \E c \in DOMAIN cobrancas :
           cobrancas[c].taxa_juros = 60 /\ Cardinality(ParcelasDe(parcelas, c)) = 15
    /\ \E c \in DOMAIN cobrancas :
           cobrancas[c].taxa_juros = 30 /\ Cardinality(ParcelasDe(parcelas, c)) = 10

\* C9: no schedule is generated from a first due date that is a Sunday or
\* Dec 24, Dec 25, Dec 31 or Jan 1: no charge is stored with such a first
\* due date.
C9_PrimeiraDataPermitida ==
    \A c \in DOMAIN cobrancas : ~is_data_bloqueada(cobrancas[c].data_vencimento)

\* C10: schedule generation is atomic: every committed charge has at least
\* the installments of its plan and every committed installment has its
\* charge, and a request that fails leaves every table as it was.
C10_GeracaoAtomica ==
    [][ /\ \A c \in DOMAIN cobrancas' :
               /\ cobrancas'[c].numero_parcelas \in {10, 15}
               /\ Cardinality(ParcelasDe(parcelas', c)) >= cobrancas'[c].numero_parcelas
        /\ \A i \in DOMAIN parcelas' : parcelas'[i].cobranca_id \in DOMAIN cobrancas'
        /\ flash' \in {"erro_criar", "erro_atualizar"} => UNCHANGED tables
      ]_vars

C10_Witness ==
    /\ flash = "erro_criar"
    /\ DOMAIN cobrancas = {}
    /\ DOMAIN parcelas = {}

----------------------------------------------------------------------------
(* Properties of settlement                                                *)

\* C2: the charge becomes Pago when its last installment is settled and only
\* then: whenever no request is under way and every installment of a charge
\* is Pago the charge is Pago (no missed transition), and a charge that is
\* Pago stays Pago through every request other than a recalculation, so its
\* status goes from Pendente to Pago once.
C2_CascataUmaVez ==
    [][ /\ (\A s \in Sessions : pc'[s] = "idle") =>
               \A c \in DOMAIN cobrancas' :
                   ( /\ ParcelasDe(parcelas', c) # {}
                     /\ \A i \in ParcelasDe(parcelas', c) : parcelas'[i].status = "Pago" )
                   => cobrancas'[c].status = "Pago"
        /\ \A c \in DOMAIN cobrancas :
               ( /\ cobrancas[c].status = "Pago"
                 /\ ~\E s \in Sessions : /\ pc[s] = "commit"
                                         /\ pc'[s] = "idle"
                                         /\ loc[s].msg = "cobranca_atualizada" )
               => c \in DOMAIN cobrancas' /\ cobrancas'[c].status = "Pago"
      ]_vars

\* the last two installments settled by two requests, the charge Pago
C2_Witness ==
    /\ pedidos = 2
    /\ \A s \in Sessions : pc[s] = "idle"
    /\ flash = "cobranca_liquidada"
    /\ \A c \in DOMAIN cobrancas : cobrancas[c].status = "Pago"
    /\ \A i \in DOMAIN parcelas : parcelas[i].status = "Pago"
    /\ Cardinality(DOMAIN parcelas) = 15
    /\ BagCardinality(historico_pagamentos) = 15

\* C3: in every committed state a charge that is Pago has every one of its
\* installments Pago.
C3_PagoSoComTodasPagas ==
    \A c \in DOMAIN cobrancas :
        cobrancas[c].status = "Pago" =>
            \A i \in ParcelasDe(parcelas, c) : parcelas[i].status = "Pago"

\* C4: the amount stored as paid for an installment is never more than what
\* is owed for it, valor + (multa_manual or 0).
C4_PagoAteODevido ==
    \A i \in DOMAIN parcelas :
        COALESCE(parcelas[i].valor_pago, 0)
            <= parcelas[i].valor + COALESCE(parcelas[i].multa_manual, 0)

\* C5: a payment request whose amount is zero or negative changes no table:
\* no step of such a request writes to parcelas, cobrancas or the payment log.
C5_ValorNaoPositivoRejeitado ==
    [][ \A s \in Sessions :
            ( /\ loc[s].valor_input.kind = "num"
              /\ loc[s].valor_input.v <= 0 )
            => UNCHANGED tables
      ]_vars

\* C6: a payment request on an installment that is Pago is answered as paid
\* already and changes no table: no such request opens a transaction.
C6_PagoSemEfeito ==
    [][ /\ flash' = "ja_paga" => UNCHANGED tables
        /\ \A s \in Sessions :
               ( /\ pc[s] = "idle"
                 /\ pc'[s] # "idle"
                 /\ loc'[s].erro = "erro_pagamento" )
               => parcelas[loc'[s].id].status # "Pago"
      ]_vars

C6_Witness ==
    /\ flash = "ja_paga"
    /\ \E i \in Alvos : parcelas[i].status = "Pago"
    /\ \A s \in Sessions : pc[s] = "idle"

\* C7: a payment request that commits adds its amount to the installment's
\* valor_pago and leaves the installment Pago exactly when the new valor_pago
\* is at least valor + (multa_manual or 0) minus one cent, Pendente otherwise.
C7_StatusComTolerancia ==
    [][ \A s \in Sessions :
            ( /\ pc[s] = "commit"
              /\ pc'[s] = "idle"
              /\ loc[s].erro = "erro_pagamento"
              /\ flash' # "erro_pagamento" )
            => LET antes == parcelas[loc[s].id]
                   depois == parcelas'[loc[s].id]
               IN  /\ antes.status = "Pendente"
                   /\ depois.valor_pago =
                          COALESCE(antes.valor_pago, 0) + loc[s].valor_recebido_agora
                   /\ depois.status \in {"Pago", "Pendente"}
                   /\ depois.status = "Pago" <=>
                          depois.valor_pago >=
                              depois.valor + COALESCE(depois.multa_manual, 0) - Cent
      ]_vars

\* an installment owed 100.00 that received 33.34 and then 66.66
C7_Witness ==
    /\ pedidos = 2
    /\ \A s \in Sessions : pc[s] = "idle"
    /\ BagIn([cobranca_id |-> 1, valor_pago |-> 33340], historico_pagamentos)
    /\ BagIn([cobranca_id |-> 1, valor_pago |-> 66660], historico_pagamentos)
    /\ \E i \in Alvos :
           /\ parcelas[i].valor = 100000
           /\ parcelas[i].multa_manual = NULL
           /\ parcelas[i].valor_pago = 100000
           /\ parcelas[i].status = "Pago"

\* C11: a payment request is all or nothing.  Tables change only when a
\* request ends; a payment request that fails, at whatever statement, leaves
\* every table as it was; one that commits writes the installment, the
\* charge's valor_pago, the payment log row and the cascade together, so no
\* committed state left by a payment has all installments Pago and the charge
\* not Pago.
C11_PagamentoAtomico ==
    [][ /\ (\A s \in Sessions : pc[s] = "idle" \/ pc'[s] # "idle") => UNCHANGED tables
        /\ \A s \in Sessions :
            /\ ( /\ pc[s] # "idle"
                 /\ pc'[s] = "idle"
                 /\ loc[s].erro = "erro_pagamento"
                 /\ flash' = "erro_pagamento" )
               => UNCHANGED tables
            /\ ( /\ pc[s] = "commit"
                 /\ pc'[s] = "idle"
                 /\ loc[s].erro = "erro_pagamento"
                 /\ flash' # "erro_pagamento" )
               => LET c == loc[s].cobranca_id
                      v == loc[s].valor_recebido_agora
                      r == [cobranca_id |-> c, valor_pago |-> v]
                  IN  /\ CopiesIn(r, historico_pagamentos')
                             = CopiesIn(r, historico_pagamentos) + 1
                      /\ c \in DOMAIN cobrancas'
                      /\ cobrancas'[c].valor_pago = cobrancas[c].valor_pago + v
                      /\ loc[s].id \in DOMAIN parcelas' =>
                             /\ parcelas'[loc[s].id].status = loc[s].status_novo
                             /\ parcelas'[loc[s].id].valor_pago = loc[s].total_pago
                      /\ ( /\ ParcelasDe(parcelas', c) # {}
                           /\ \A i \in ParcelasDe(parcelas', c) :
                                  parcelas'[i].status = "Pago" )
                         => cobrancas'[c].status = "Pago"
      ]_vars

\* a payment request failed after it had started to write
C11_Witness ==
    /\ flash = "erro_pagamento"
    /\ pedidos = 1
    /\ \A s \in Sessions : pc[s] = "idle"
    /\ \A c \in DOMAIN cobrancas : cobrancas[c].status = "Pendente"
    /\ \E i \in DOMAIN parcelas : parcelas[i].status = "Pendente"

\* C12: a payment request that commits adds exactly one row to the payment
\* log, and the amount of the row is what the request added to the
\* installment's valor_pago (for a payment on the charge, to the charge's
\* valor_pago); the rows of a charge sum to the charge's valor_pago.
C12_RegistoDoValorAplicado ==
    [][ /\ \A c \in DOMAIN cobrancas' :
               SomaHistorico(HistDe(historico_pagamentos', c))
                   = COALESCE(cobrancas'[c].valor_pago, 0)
        /\ \A s \in Sessions :
               ( /\ pc[s] = "commit"
                 /\ pc'[s] = "idle"
                 /\ flash' \in {"parcela_quitada", "pagamento_parcial",
                                "cobranca_liquidada"} )
               => LET i == loc[s].id
                      r == [cobranca_id |-> loc[s].cobranca_id,
                            valor_pago |-> parcelas'[i].valor_pago
                                               - COALESCE(parcelas[i].valor_pago, 0)]
                  IN  /\ r.valor_pago > 0
                      /\ historico_pagamentos' = historico_pagamentos (+) SetToBag({r})
        /\ \A s \in Sessions :
               ( /\ pc[s] = "commit"
                 /\ pc'[s] = "idle"
                 /\ flash' = "pagamento_registrado" )
               => LET c == loc[s].id
                      r == [cobranca_id |-> c,
                            valor_pago |-> cobrancas'[c].valor_pago
                                               - COALESCE(cobrancas[c].valor_pago, 0)]
                  IN  /\ r.valor_pago > 0
                      /\ historico_pagamentos' = historico_pagamentos (+) SetToBag({r})
      ]_vars

\* two partial payments of an installment and a payment on the charge, each
\* with its own row
C12_Witness ==
    /\ pedidos = 3
    /\ \A s \in Sessions : pc[s] = "idle"
    /\ BagIn([cobranca_id |-> 1, valor_pago |-> 33340], historico_pagamentos)
    /\ BagIn([cobranca_id |-> 1, valor_pago |-> 66660], historico_pagamentos)
    /\ BagIn([cobranca_id |-> 1, valor_pago |-> 50000], historico_pagamentos)
    /\ BagCardinality(pagamentos) = 1

\* C13: an installment has a date of payment exactly when it is Pago: a
\* payment that settles it writes the date, a partial payment leaves it empty.
C13_DataPagamentoSeSoSePago ==
    \A i \in DOMAIN parcelas :
        parcelas[i].data_pagamento # NULL <=> parcelas[i].status = "Pago"

\* one installment partly paid and without a date, the other settled by a
\* request and dated
C13_Witness ==
    /\ pedidos = 2
    /\ \A s \in Sessions : pc[s] = "idle"
    /\ BagCardinality(historico_pagamentos) = 15
    /\ \E i \in DOMAIN parcelas :
           /\ parcelas[i].status = "Pendente"
           /\ parcelas[i].valor_pago = 33340
           /\ parcelas[i].data_pagamento = NULL
    /\ \E j \in DOMAIN parcelas :
           /\ parcelas[j].numero_parcela = 14
           /\ parcelas[j].status = "Pago"
           /\ parcelas[j].data_pagamento = Hoje

\* C14: the payment log only grows: a row written for a charge that still
\* exists is never removed or changed by a later request.
C14_RegistosSoAcrescentados ==
    [][ \A r \in DOMAIN historico_pagamentos :
            r.cobranca_id \in DOMAIN cobrancas' =>
                CopiesIn(r, historico_pagamentos') >= CopiesIn(r, historico_pagamentos)
      ]_vars

\* C15: the status of a charge changes only when the cascade of a payment
\* request settles it: no other request changes it.
C15_StatusSoPelaCascata ==
    [][ \A c \in DOMAIN cobrancas \cap DOMAIN cobrancas' :
            cobrancas'[c].status # cobrancas[c].status =>
                \E s \in Sessions : /\ pc[s] = "commit"
                                    /\ pc'[s] = "idle"
                                    /\ loc[s].msg = "cobranca_liquidada"
      ]_vars

\* C16: the outstanding balance reported for the portfolio and for each open
\* charge is the sum, over the Pendente installments of the open charges in
\* scope, of max(valor + (multa_manual or 0) - valor_pago, 0).
C16_SaldoDevedor ==
    LET restante == [i \in DOMAIN parcelas |->
                        IF parcelas[i].valor + COALESCE(parcelas[i].multa_manual, 0)
                               > COALESCE(parcelas[i].valor_pago, 0)
                        THEN parcelas[i].valor + COALESCE(parcelas[i].multa_manual, 0)
                                 - COALESCE(parcelas[i].valor_pago, 0)
                        ELSE 0]
        abertas(c) == {i \in DOMAIN parcelas : /\ parcelas[i].cobranca_id = c
                                               /\ parcelas[i].status = "Pendente"}
    IN  /\ \A c \in DOMAIN cobrancas :
               cobrancas[c].status = "Pendente" =>
                   saldo_devedor_cobranca(c) = SomaDe(restante, abertas(c))
        /\ saldo_devedor_total =
               SomaDe(restante,
                      UNION {abertas(c) : c \in {x \in DOMAIN cobrancas :
                                                    cobrancas[x].status = "Pendente"}})

\* C17: a request to move an installment's due date to a Sunday or to Dec 24,
\* Dec 25, Dec 31 or Jan 1 is rejected, so the request never proceeds to the
\* update and no committed date edit leaves the installment due on such a date.
C17_DataEditadaPermitida ==
    [][ \A s \in Sessions :
            /\ (pc[s] = "idle" /\ pc'[s] = "data_upd")
                   => ~is_data_bloqueada(loc'[s].data)
            /\ (pc[s] = "commit" /\ pc'[s] = "idle" /\ flash' = "data_atualizada"
                    /\ loc[s].id \in DOMAIN parcelas')
                   => ~is_data_bloqueada(parcelas'[loc[s].id].data_vencimento)
      ]_vars

\* C18: every charge created by adicionar_cobranca or recalculated by
\* editar_cobranca has valor_total = valor_original * (1 + taxa_juros / 100),
\* a taxa_juros of 30 or 60, and the numero_parcelas of that rate (10 or 15).
C18_ValorTotalComJuros ==
    \A c \in DOMAIN cobrancas :
        /\ cobrancas[c].taxa_juros \in {30, 60}
        /\ cobrancas[c].valor_total * 100
               = cobrancas[c].valor_original * (100 + cobrancas[c].taxa_juros)
        /\ cobrancas[c].numero_parcelas
               = (IF cobrancas[c].taxa_juros = 30 THEN 10 ELSE 15)

\* a charge created at rate 30 has been recalculated to 2000.00 at rate 60
C18_Witness ==
    /\ flash = "cobranca_atualizada"
    /\ \A s \in Sessions : pc[s] = "idle"
    /\ \E c \in DOMAIN cobrancas :
           /\ cobrancas[c].valor_original = Real(2000)
           /\ cobrancas[c].taxa_juros = 60
           /\ cobrancas[c].valor_total = Real(3200)
           /\ cobrancas[c].numero_parcelas = 15
    /\ \E c \in DOMAIN cobrancas :
           /\ cobrancas[c].valor_original = Real(1000)
           /\ cobrancas[c].taxa_juros = 30
           /\ cobrancas[c].valor_total = Real(1300)

\* C19: the installments that a committed generation or regeneration adds all
\* carry the same face value, the charge's valor_total divided by their count
\* (the count of the charge's rate), and their sum differs from valor_total by
\* at most one cent per installment.
C19_ParcelasIguais ==
    [][ \A s \in Sessions :
            (pc[s] = "commit" /\ pc'[s] = "idle"
                 /\ flash' \in {"cobranca_criada", "cobranca_atualizada"})
            => LET novas == DOMAIN parcelas' \ DOMAIN parcelas
                   n == Cardinality(novas)
               IN  /\ novas # {}
                   /\ \A i \in novas :
                          LET c == parcelas'[i].cobranca_id
                              v == parcelas'[i].valor
                              total == cobrancas'[c].valor_total
                          IN  /\ c \in DOMAIN cobrancas'
                              /\ n = cobrancas'[c].numero_parcelas
                              /\ 2 * n * v - 2 * total \in (-n)..n
                              /\ n * v - total \in (0 - n * Cent)..(n * Cent)
                              /\ \A j \in novas : parcelas'[j].valor = v
      ]_vars

\* a 15-installment schedule of 1600.00 has been committed: 106.667 each
C19_Witness ==
    /\ flash = "cobranca_criada"
    /\ \A s \in Sessions : pc[s] = "idle"
    /\ \E c \in DOMAIN cobrancas :
           /\ cobrancas[c].valor_total = Real(1600)
           /\ Cardinality(ParcelasDe(parcelas, c)) = 15
           /\ \A i \in ParcelasDe(parcelas, c) : parcelas[i].valor = 106667

\* C20: generating a schedule for a principal of 1000.00 at rate 30 with the
\* first due date 2024-03-04 gives a charge with valor_total 1300.00 and 10
\* installments of 130.00 each, numbered 1..10, due on 2024-03-04 .. 2024-03-09
\* and 2024-03-11 .. 2024-03-14: Sunday 2024-03-10 is skipped.
C20_ExemploGerado ==
    \A c \in DOMAIN cobrancas :
        LET d == date(2024, 3, 4)
            ids == ParcelasDe(parcelas, c)
        IN  /\ cobrancas[c].valor_total = Real(1300)
            /\ Cardinality(ids) = 10
            /\ {parcelas[i].numero_parcela : i \in ids} = 1..10
            /\ \A i \in ids :
                   /\ parcelas[i].valor = Real(130)
                   /\ parcelas[i].data_vencimento =
                          (IF parcelas[i].numero_parcela <= 6
                           THEN d + parcelas[i].numero_parcela - 1
                           ELSE d + parcelas[i].numero_parcela)

\* the example's schedule has been generated and committed
C20_Witness ==
    /\ flash = "cobranca_criada"
    /\ \A s \in Sessions : pc[s] = "idle"
    /\ \E c \in DOMAIN cobrancas :
           /\ cobrancas[c].valor_original = Real(1000)
           /\ cobrancas[c].data_vencimento = date(2024, 3, 4)
           /\ Cardinality(ParcelasDe(parcelas, c)) = 10

\* C20 as stated: the same request gives valor_total 1300.00 and 10
\* installments of 110.00 each, due on the 10 consecutive days from 2024-03-04.
C20_ExemploDaEspecificacao ==
    \A c \in DOMAIN cobrancas :
        LET d == date(2024, 3, 4)
            ids == ParcelasDe(parcelas, c)
        IN  /\ cobrancas[c].valor_total = Real(1300)
            /\ Cardinality(ids) = 10
            /\ \A i \in ids : parcelas[i].valor = Real(110)
            /\ {parcelas[i].data_vencimento : i \in ids} = d..(d + 9)

\* C21: the request that generates a schedule with first due date 2024-12-22
\* is accepted, not turned down for its date, and no installment of a
\* generated schedule that crosses Christmas is due on Dec 24 or Dec 25: the
\* two are due on Dec 26 and Dec 27.
C21_NatalDeslocado ==
    [][ /\ (cobrancas = EmptyRows /\ \A s \in Sessions : pc[s] = "idle")
               => flash' # "data_bloqueada"
        /\ \A s \in Sessions :
               (pc[s] = "commit" /\ pc'[s] = "idle" /\ flash' = "cobranca_criada")
               => \A i \in DOMAIN parcelas' \ DOMAIN parcelas :
                      ~(month(parcelas'[i].data_vencimento) = 12
                            /\ day(parcelas'[i].data_vencimento) \in {24, 25})
      ]_vars

\* C22: on an installment of 50.00 with no penalty and nothing paid a payment
\* of 30.00 leaves it Pendente with 20.00 outstanding, and a following payment
\* of 20.00 makes it Pago with nothing outstanding; after every committed
\* payment the outstanding amount is the amount due minus the new cumulative
\* valor_pago, and is not negative.
C22_SaldoAposPagamento ==
    [][ \A s \in Sessions :
            (pc[s] = "commit" /\ pc'[s] = "idle" /\ loc[s].erro = "erro_pagamento"
                 /\ flash' # "erro_pagamento")
            => LET antes == parcelas[loc[s].id]
                   depois == parcelas'[loc[s].id]
                   saldo == saldo_pos_pagamento(ValorDevido(antes), loc[s].total_pago)
               IN  /\ saldo >= 0
                   /\ saldo = ValorDevido(antes) - depois.valor_pago
                   /\ saldo = SaldoRestante(depois)
                   /\ (antes.valor = Real(50) /\ antes.multa_manual = NULL
                           /\ antes.valor_pago = 0 /\ loc[s].valor_input = Num(30000))
                      => (depois.status = "Pendente" /\ saldo = Real(20))
                   /\ (antes.valor = Real(50) /\ antes.multa_manual = NULL
                           /\ antes.valor_pago = Real(30) /\ loc[s].valor_input = Num(20000))
                      => (depois.status = "Pago" /\ saldo = 0)
      ]_vars

\* an installment of 50.00 has been settled by 30.00 and then 20.00
C22_Witness ==
    /\ pedidos = 2
    /\ \A s \in Sessions : pc[s] = "idle"
    /\ BagIn([cobranca_id |-> 1, valor_pago |-> Real(30)], historico_pagamentos)
    /\ BagIn([cobranca_id |-> 1, valor_pago |-> Real(20)], historico_pagamentos)
    /\ \E i \in DOMAIN parcelas :
           /\ parcelas[i].valor = Real(50)
           /\ parcelas[i].valor_pago = Real(50)
           /\ parcelas[i].status = "Pago"
           /\ parcelas[i].data_pagamento = Hoje
    /\ flash \in {"parcela_quitada", "cobranca_liquidada"}

\* C23: get_proximo_dia_util returns, for every date, the earliest date from
\* it on that is not blocked, a date being blocked exactly when it is a Sunday,
\* Dec 24, Dec 25, Dec 31 or Jan 1; a date that is not blocked is returned as
\* it is, and the date returned is at most 3 days later.
C23_ProximoDiaUtil ==
    (chamada.fn = "get_proximo_dia_util" /\ chamada.retorno # NULL)
    => LET Bloqueada(n) == \/ n % 7 = 6
                           \/ (month(n) = 12 /\ day(n) \in {24, 25, 31})
                           \/ (month(n) = 1 /\ day(n) = 1)
           d == chamada.data_obj
           r == chamada.retorno
       IN  /\ is_data_bloqueada(d) <=> Bloqueada(d)
           /\ r >= d
           /\ r - d <= 3
           /\ ~Bloqueada(r)
           /\ \A n \in d..(r - 1) : Bloqueada(n)
           /\ ~Bloqueada(d) => r = d

\* Friday 2027-12-24: Dec 24, Dec 25 and Sunday Dec 26 are passed over
C23_Witness ==
    /\ chamada.fn = "get_proximo_dia_util"
    /\ chamada.data_obj = date(2027, 12, 24)
    /\ chamada.retorno = date(2027, 12, 27)

\* C24: calcular_valor_atualizado returns no penalty, no interest and a total
\* of principal - discount when the charge is Pago, has no due date, is not
\* past its due date or is late by at most dias_tolerancia days; it applies
\* penalty and interest only when the days late exceed dias_tolerancia; a key
\* missing from the configuration reads as its default: dias_tolerancia 3,
\* taxa_multa 10, taxa_juros_mensal 2.
C24_SemAcrescimoNaTolerancia ==
    (chamada.fn = "calcular_valor_atualizado" /\ "retorno" \in DOMAIN chamada)
    => LET c == chamada.cobranca
           r == chamada.retorno
           cfg == chamada.config
           tol == IF "dias_tolerancia" \in DOMAIN cfg THEN cfg["dias_tolerancia"] ELSE 3
           tm == IF "taxa_multa" \in DOMAIN cfg THEN cfg["taxa_multa"] ELSE 10
           tj == IF "taxa_juros_mensal" \in DOMAIN cfg THEN cfg["taxa_juros_mensal"] ELSE 2
           desconto == IF "desconto" \in DOMAIN c THEN c.desconto ELSE 0
           atraso == IF c.data_vencimento = NULL \/ chamada.hoje < c.data_vencimento
                     THEN 0 ELSE chamada.hoje - c.data_vencimento
       IN  IF c.status = "Pago" \/ atraso <= tol
           THEN /\ r.multa = 0
                /\ r.juros = 0
                /\ r.valor_total = c.valor_original - desconto
           ELSE /\ r.multa * 100 = c.valor_original * tm
                /\ r.juros > 0
                /\ 2 * (r.juros * 3000 - c.valor_original * tj * atraso)
                       \in (0 - 3000 * Cent)..(3000 * Cent)
                /\ r.valor_total - (c.valor_original + r.multa + r.juros - desconto)
                       \in (0 - Cent)..Cent
                /\ r.dias_atraso = atraso

\* a charge 4 days late with an empty configuration: the default tolerance of
\* 3 days is passed, and the default 10% penalty is applied
C24_Witness ==
    /\ chamada.fn = "calcular_valor_atualizado"
    /\ "retorno" \in DOMAIN chamada
    /\ DOMAIN chamada.config = {}
    /\ chamada.cobranca.status = "Pendente"
    /\ chamada.hoje = chamada.cobranca.data_vencimento + 4
    /\ chamada.cobranca.valor_original = Real(100)
    /\ chamada.retorno.multa = Real(10)
    /\ chamada.retorno.juros = 270
    /\ chamada.retorno.dias_atraso = 4

\* C25: a committed charge-level payment (registrar_pagamento) never takes
\* the charge's valor_pago above its valor_total: what exceeds the outstanding
\* balance is not applied.
C25_PagamentoAvulsoLimitado ==
    [][ \A s \in Sessions :
            (pc[s] = "commit" /\ pc'[s] = "idle" /\ flash' = "pagamento_registrado"
                 /\ loc[s].id \in DOMAIN cobrancas'
                 /\ COALESCE(cobrancas[loc[s].id].valor_pago, 0)
                        <= cobrancas[loc[s].id].valor_total)
            => COALESCE(cobrancas'[loc[s].id].valor_pago, 0)
                   <= cobrancas'[loc[s].id].valor_total
      ]_vars

\* C26: a committed installment payment keeps the charge's valor_pago equal
\* to the sum of valor_pago over the charge's installments, also when another
\* payment of the same installment is under way at the same time.
C26_PagoDaCobrancaSomaDasParcelas ==
    [][ \A s \in Sessions :
            LET c == loc[s].cobranca_id
                pago(rows) == [i \in DOMAIN rows |-> COALESCE(rows[i].valor_pago, 0)]
            IN  (pc[s] = "commit" /\ pc'[s] = "idle" /\ loc[s].erro = "erro_pagamento"
                     /\ flash' # "erro_pagamento"
                     /\ c \in DOMAIN cobrancas /\ c \in DOMAIN cobrancas'
                     /\ COALESCE(cobrancas[c].valor_pago, 0)
                            = SomaDe(pago(parcelas), ParcelasDe(parcelas, c)))
                => COALESCE(cobrancas'[c].valor_pago, 0)
                       = SomaDe(pago(parcelas'), ParcelasDe(parcelas', c))
      ]_vars

\* C27: whenever no request is under way an installment's status agrees with
\* its amounts: one whose valor_pago is at least valor + (multa_manual or 0)
\* less one cent is Pago, so a Pendente installment has something left to pay
\* and a further payment of it is not turned down as already paid.
C27_StatusDeAcordoComValores ==
    (\A s \in Sessions : pc[s] = "idle")
    => \A i \in DOMAIN parcelas :
           /\ (COALESCE(parcelas[i].valor_pago, 0)
                   >= parcelas[i].valor + COALESCE(parcelas[i].multa_manual, 0) - Cent)
              => parcelas[i].status = "Pago"
           /\ parcelas[i].status = "Pendente"
              => (parcelas[i].valor + COALESCE(parcelas[i].multa_manual, 0)
                      > COALESCE(parcelas[i].valor_pago, 0)
                  /\ ~JaPaga(parcelas[i]))

\* C28: whenever no request is under way the installments of every charge
\* are numbered 1..N without gaps or repeats, N being the charge's
\* numero_parcelas, and their due dates increase strictly with the number, so
\* no two of them share a due date.
C28_NumeracaoEDatasCrescentes ==
    (\A s \in Sessions : pc[s] = "idle")
    => \A c \in DOMAIN cobrancas :
           LET ids == ParcelasDe(parcelas, c)
           IN  /\ {parcelas[i].numero_parcela : i \in ids} = 1..cobrancas[c].numero_parcelas
               /\ \A i, j \in ids :
                      /\ (i # j => parcelas[i].numero_parcela # parcelas[j].numero_parcela)
                      /\ (parcelas[i].numero_parcela < parcelas[j].numero_parcela
                              => parcelas[i].data_vencimento < parcelas[j].data_vencimento)
                      /\ (i # j => parcelas[i].data_vencimento # parcelas[j].data_vencimento)

\* C29: when corrigir_parcelas has just corrected an installment of a pending
\* charge to Pago, it sets the charge to Pago exactly when every installment
\* of the charge is then Pago: not while one is still not Pago, and always
\* when the corrected installment was the last one.
C29_CorrecaoQuitaSoComTodasPagas ==
    [][ \A s \in Sessions :
            (pc[s] = "fix_loop" /\ pc'[s] = "fix_loop")
            => \A i \in loc[s].snap \ loc'[s].snap :
                   LET antes == Overlay(parcelas, tx[s].par, tx[s].delpar)
                       depois == Overlay(parcelas', tx'[s].par, tx'[s].delpar)
                       c == parcelas[i].cobranca_id
                       cob_antes == Overlay(cobrancas, tx[s].cob, {})
                       cob_depois == Overlay(cobrancas', tx'[s].cob, {})
                   IN  (antes[i].status # "Pago" /\ depois[i].status = "Pago"
                            /\ cob_antes[c].status # "Pago")
                       => (cob_depois[c].status = "Pago"
                               <=> \A j \in ParcelasDe(depois, c) : depois[j].status = "Pago")
      ]_vars

\* C30: when corrigir_datas_festivas has run and committed, no Pendente
\* installment is due on a Sunday, Dec 24, Dec 25, Dec 31 or Jan 1, and no two
\* installments of one charge that it has moved are due on the same date.
C30_DatasFestivasCorrigidas ==
    [][ \A s \in Sessions :
            (pc[s] = "commit" /\ pc'[s] = "idle" /\ flash' = "datas_corrigidas")
            => LET movidas == {i \in DOMAIN parcelas \cap DOMAIN parcelas' :
                                  parcelas'[i].data_vencimento # parcelas[i].data_vencimento}
               IN  /\ \A i \in DOMAIN parcelas' :
                          parcelas'[i].status = "Pendente"
                              => ~is_data_bloqueada(parcelas'[i].data_vencimento)
                   /\ \A i, j \in movidas :
                          (i # j /\ parcelas'[i].cobranca_id = parcelas'[j].cobranca_id)
                              => parcelas'[i].data_vencimento # parcelas'[j].data_vencimento
      ]_vars

=============================================================================
